---- MODULE Spec2Model ----
(***************************************************************************)
(* A model of the pyfuelprices orchestrator (FuelPrices) and of the part   *)
(* of the Source contract it drives.                                        *)
(*                                                                         *)
(* Providers are numbered 1..NumSources; provider names are lower-case in  *)
(* the source (provider_name = "quechoisir"), so str(..).lower() leaves a  *)
(* provider id as it is.  0 stands for source_id = "" (no source given).   *)
(* A site id "<provider>_<n>" is the pair <<provider, n>>.                 *)
(*                                                                         *)
(* QuechoisirSource (provider 1) is modelled on its own as well: its       *)
(* location_cache, parse_fuels, parse_raw_fuel_station, parse_response,    *)
(* update and search_sites.  A text is the sequence of its characters, a   *)
(* cost is kept in thousandths.                                            *)
(***************************************************************************)
EXTENDS Integers, Sequences, FiniteSets, TLC

\* ------------------------------------------------------------------ bounds
NumSources == 5          \* providers known to SOURCE_MAP
SitesPerSource == 3      \* stations a provider's location_cache holds
MaxInstances == 2        \* FuelPrices.create calls
MaxLocs == 3             \* length of a location list given to the ranking
MaxEnabled == 2          \* length of a config's enabled_sources list
MaxFuels == 3            \* length of a fuels list given to parse_fuels
MaxParses == 3           \* stations parsed by one QuechoisirSource
MaxTime == 2             \* the last tick of the clock

\* ------------------------------------------------------- program constants
UpdateSemaphore == 4     \* asyncio.Semaphore(4) in update_src
SiteSemaphore == 5       \* asyncio.Semaphore(5) in dynamic_build

\* ------------------------------------------------ mapping (not under src/)
SOURCE_MAP == 1..NumSources
UnknownSource == NumSources + 1
NoSource == 0

\* country code -> the providers covering the country, in the table's order
COUNTRY_MAP == [c \in {"FR", "GB", "AU"} |->
                  CASE c = "FR" -> <<1, 2, 5>>
                    [] c = "GB" -> <<3>>
                    [] c = "AU" -> <<4>>]

\* The country codes the geocoder answers with (lower case; "zz" has no provider).
GeocodeCodes == {"fr", "gb", "au", "zz"}

\* str.upper() on a country code
Upper(c) == CASE c = "fr" -> "FR" [] c = "gb" -> "GB" [] c = "au" -> "AU"
              [] c = "zz" -> "ZZ" [] OTHER -> c

\* COUNTRY_MAP.get(code, [])
CountryProviders(code) == IF code \in DOMAIN COUNTRY_MAP THEN COUNTRY_MAP[code] ELSE << >>

VARIABLES
    configured_sources,  \* FuelPrices.configured_sources (class attribute):
                         \*   provider id -> the instance whose create built the Source
    accessed_sites,      \* FuelPrices._accessed_sites (class attribute): site id -> provider id
    instances,           \* number of FuelPrices objects created so far
    actor,               \* the instance the last operation was called on (a create: the new one)
    create_result,       \* how the last create ended: "none", "ok", "ValueError"
    upd_pc,              \* FuelPrices.update: "idle", "gather", "returned", "raised"
    upd_force,           \* its force argument
    task,                \* update_src task per source: "none", "created", "updating", "done", "failed"
    outcome,             \* what s.update did per source: "none", "ok", "TimeoutError", "ClientError"
    upd_sem,             \* value of the semaphore each update_src task constructed
    q_pc,                \* the query call: "idle", "geocode", "loop", "search", "gather",
                         \*   "get_site", "returned", "raised"
    q_kind,              \* the method called, "none" before the first call
    q_source_id,         \* its source_id argument (NoSource for "")
    q_site_id,           \* get_fuel_location's site_id argument
    q_radius,            \* its radius argument
    q_fuel_type,         \* its fuel_type argument
    q_geocoded,          \* the country code the geocode lookup gave, "" before it
    q_srcs,              \* the provider list find_fuel_locations_from_point walks
    q_idx,               \* its position in that list
    locations,           \* the locations found so far
    fetch,               \* dynamic_build task per location: "created", "fetching", "done", "failed"
    fetch_sem,           \* value of the semaphore each dynamic_build task constructed
    io,                  \* the upstream calls made by the query, in order
    q_result,            \* the list returned
    q_err,               \* the exception raised, "none" if none
    pf_fuels,            \* QuechoisirSource.parse_fuels: its fuels argument
    pf_pc,               \* "idle", "returned", "raised"
    pf_result,           \* the list returned
    pf_err,              \* the exception raised, "none" if none
    location_cache,      \* QuechoisirSource.location_cache: the FuelLocations in the
                         \*   order of the dict, each with the identity of its object
    objects,             \* number of FuelLocation objects created so far
    parsed,              \* the site ids parsed so far
    parse_op,            \* the parse method called last, "none" before the first call
    parse_ret,           \* what it returned
    parse_err,           \* the exception it raised, "none" if none
    s_pc,                \* QuechoisirSource.update / search_sites: "idle", "geocode",
                         \*   "commune", "stations", "returned", "raised"
    s_op,                \* the method called, "none" before the first call
    s_areas,             \* the areas update has still to walk, the current one first
    s_force,             \* update's force argument
    s_radius,            \* search_sites' radius argument
    requests,            \* the requests the call has sent to the upstream, in order
    s_fetched,           \* the site ids of the station listings the call has fetched
    s_result,            \* the list search_sites returned
    s_err,               \* the exception raised, "none" if none
    fetched,             \* the areas whose station listing was fetched so far
    now,                 \* the time
    next_update          \* Source.next_update

createVars == <<configured_sources, instances, actor, create_result>>
updateVars == <<upd_pc, upd_force, task, outcome, upd_sem>>
queryVars == <<q_pc, q_kind, q_source_id, q_site_id, q_radius, q_fuel_type, q_geocoded,
               q_srcs, q_idx, locations, fetch, fetch_sem, io, q_result, q_err>>

parseVars == <<pf_fuels, pf_pc, pf_result, pf_err>>
cacheVars == <<location_cache, objects, parsed, parse_op, parse_ret, parse_err>>
refreshVars == <<s_pc, s_op, s_areas, s_force, s_radius, requests, s_fetched, s_result,
                 s_err, fetched, now, next_update>>
sourceVars == <<parseVars, cacheVars, refreshVars>>

vars == <<createVars, accessed_sites, updateVars, queryVars, sourceVars>>

\* ------------------------------------------------------------ FuelPrices.create

\* enabled_sources = None (the key is absent from the config): no list of ids.
None == <<-1>>

\* The enabled_sources lists a config can carry: valid ids (those of the
\* providers of the first two countries) and an unknown one, in any order.
EnabledIds == {s \in SOURCE_MAP : s <= 3} \cup {UnknownSource}
EnabledLists == UNION {[1..n -> EnabledIds] : n \in 0..MaxEnabled}

\* config: enabled_sources is None or a list, country_code is "" or a code
\* (country_code is read only when enabled_sources is None).
Configs == [enabled_sources : {None}, country_code : {"", "fr", "GB", "au", "zz"}]
             \cup [enabled_sources : EnabledLists, country_code : {""}]

Put(d, k, v) == [x \in DOMAIN d \cup {k} |-> IF x = k THEN v ELSE d[x]]

\* for src in enabled_sources: an id that is not in SOURCE_MAP raises ValueError
\* there; every id before it has been stored in configured_sources already.
RECURSIVE AddEnabled(_, _, _)
AddEnabled(cs, enabled, who) ==
    IF enabled = << >> THEN [sources |-> cs, err |-> "ok"]
    ELSE IF Head(enabled) \notin SOURCE_MAP THEN [sources |-> cs, err |-> "ValueError"]
    ELSE AddEnabled(Put(cs, Head(enabled), who), Tail(enabled), who)

\* def_sources = COUNTRY_MAP.get(country_code.upper(), []), or {} for "".
DefSources(country_code) ==
    IF country_code # "" THEN CountryProviders(Upper(country_code)) ELSE << >>

RECURSIVE AddDefault(_, _, _)
AddDefault(cs, def_sources, who) ==
    IF def_sources = << >> THEN [sources |-> cs, err |-> "ok"]
    ELSE AddDefault(Put(cs, Head(def_sources), who), Tail(def_sources), who)

\* self.configured_sources[src] = ... : FuelPrices has no __init__ and create
\* never binds self.configured_sources, so the dict written is the class attribute.
CreateSources(cs, config, who) ==
    IF config.enabled_sources # None
    THEN AddEnabled(cs, config.enabled_sources, who)
    ELSE AddDefault(cs, DefSources(config.country_code), who)

\* The dicts an instance reaches through self.configured_sources and
\* self._accessed_sites: attribute lookup falls through to the class.
InstanceSources(i) == IF i \in 1..instances THEN DOMAIN configured_sources ELSE {}
InstanceAccessed(i) == IF i \in 1..instances THEN accessed_sites ELSE << >>

\* create(config): a FuelPrices is returned unless an id was unknown.
Create(config) ==
    /\ instances < MaxInstances
    /\ LET r == CreateSources(configured_sources, config, instances + 1) IN
        /\ configured_sources' = r.sources
        /\ create_result' = r.err
        /\ instances' = IF r.err = "ok" THEN instances + 1 ELSE instances
        /\ actor' = instances + 1
    /\ UNCHANGED <<accessed_sites, updateVars, queryVars, sourceVars>>

\* ------------------------------------------------ Source.search_sites (as called)

FuelTypes == {"E10", "B7"}
FuelOrder == <<"E10", "B7">>     \* the order a station's available_fuels dict lists them

SiteIds == SOURCE_MAP \X (1..SitesPerSource)

\* The prices a provider's cached station n carries: every station sells E10,
\* at 0, 1 or 2; the even ones sell B7 too.
StationFuels(site) ==
    IF site[2] % 2 = 1
    THEN [f \in {"E10"} |-> (site[1] + site[2]) % 3]
    ELSE [f \in FuelTypes |-> IF f = "E10" THEN (site[1] + site[2]) % 3 ELSE 2]

\* distance.distance(coordinates, (site.lat, site.long)).miles: station n of a
\* provider lies n miles from the point asked about.
SiteDistance(site) == site[2]

\* {**site.__dict__(), "distance": dist}
LocationRecord(site, available_fuels) ==
    [id |-> site, name |-> site, source |-> site[1],
     available_fuels |-> available_fuels, distance |-> SiteDistance(site)]

\* the test with <= for <
WithinRadiusInclusive(dist, radius) == dist <= radius

\* if dist < radius:
WithinRadius(dist, radius) == dist < radius

\* search_sites(coordinates, radius): the cached stations within the radius, in
\* the order of location_cache.
SearchCache(cache, radius) ==
    LET sites == [n \in 1..Len(cache) |-> LocationRecord(cache[n].id, cache[n].available_fuels)]
        InRange(loc) == WithinRadius(loc.distance, radius)
    IN SelectSeq(sites, InRange)

\* search_sites of provider p, whose location_cache holds its stations
SearchSites(p, radius) ==
    SearchCache([n \in 1..SitesPerSource |->
                    [id |-> <<p, n>>, available_fuels |-> StationFuels(<<p, n>>)]], radius)

Radii == 1..(SitesPerSource + 1)

\* ----------------------------------------------------- FuelPrices.get_fuel_location

IO(op, src, site) == [op |-> op, src |-> src, site |-> site]

\* if site_id not in self._accessed_sites: self._accessed_sites[site_id] = source_id
RecordAccess(acc, site_id, source_id) ==
    IF site_id \in DOMAIN acc THEN acc ELSE Put(acc, site_id, source_id)

\* a lookup that never fails, as configured_sources.get(source_id, default) would
HasSourceUnchecked(source_id) == TRUE

\* self.configured_sources[source_id]: a KeyError unless source_id is a key.
HasSource(source_id) == source_id \in DOMAIN configured_sources

FetchRunning == \E k \in DOMAIN fetch : fetch[k] \in {"created", "fetching"}

\* A call of a query method on instance i: the arguments are bound, no call is in flight.
NewCall(i, kind, site_id, source_id, radius, fuel_type) ==
    /\ i \in 1..instances
    /\ q_pc \in {"idle", "returned", "raised"}
    /\ ~FetchRunning
    /\ actor' = i
    /\ q_kind' = kind
    /\ q_site_id' = site_id
    /\ q_source_id' = source_id
    /\ q_radius' = radius
    /\ q_fuel_type' = fuel_type
    /\ q_geocoded' = ""
    /\ locations' = << >>
    /\ fetch' = << >>
    /\ fetch_sem' = << >>
    /\ q_result' = << >>
    /\ UNCHANGED <<configured_sources, instances, create_result, updateVars, sourceVars>>

\* get_fuel_location(site_id, source_id) up to its await: the site is recorded,
\* then the source is looked up and its get_site called.
GetFuelLocationCall(i, site_id, source_id) ==
    /\ NewCall(i, "get_fuel_location", site_id, source_id, 0, "")
    /\ accessed_sites' = RecordAccess(accessed_sites, site_id, source_id)
    /\ q_srcs' = << >>
    /\ q_idx' = 0
    /\ IF HasSource(source_id)
       THEN /\ q_pc' = "get_site"
            /\ io' = <<IO("get_site", source_id, site_id)>>
            /\ q_err' = "none"
       ELSE /\ q_pc' = "raised"
            /\ io' = << >>
            /\ q_err' = "KeyError"

\* get_site returns the location.
GetSiteReturn ==
    /\ q_pc = "get_site"
    /\ q_pc' = "returned"
    /\ q_result' = <<q_site_id>>
    /\ UNCHANGED <<q_kind, q_source_id, q_site_id, q_radius, q_fuel_type, q_geocoded,
                   q_srcs, q_idx, locations, fetch, fetch_sem, io, q_err>>
    /\ UNCHANGED <<createVars, accessed_sites, updateVars, sourceVars>>

\* get_site times out: nothing in get_fuel_location catches it.
GetSiteTimeout ==
    /\ q_pc = "get_site"
    /\ q_pc' = "raised"
    /\ q_err' = "TimeoutError"
    /\ UNCHANGED <<q_kind, q_source_id, q_site_id, q_radius, q_fuel_type, q_geocoded,
                   q_srcs, q_idx, locations, fetch, fetch_sem, io, q_result>>
    /\ UNCHANGED <<createVars, accessed_sites, updateVars, sourceVars>>

\* ------------------------------------------ FuelPrices.find_fuel_locations_from_point

FindKinds == {"find_fuel_locations_from_point", "find_fuel_from_point"}

\* find_fuel_locations_from_point (called directly, or first thing by
\* find_fuel_from_point) up to its first await: with a source_id the source is
\* looked up and searched, without one the coordinates are geocoded.
FindCall(i, kind, source_id, radius, fuel_type) ==
    /\ kind \in FindKinds
    /\ NewCall(i, kind, <<0, 0>>, source_id, radius, fuel_type)
    /\ UNCHANGED accessed_sites
    /\ IF source_id # NoSource
       THEN IF HasSource(source_id)
            THEN /\ q_pc' = "search"
                 /\ q_srcs' = <<source_id>>
                 /\ q_idx' = 1
                 /\ io' = <<IO("search_sites", source_id, <<0, 0>>)>>
                 /\ q_err' = "none"
            ELSE /\ q_pc' = "raised"
                 /\ q_srcs' = << >>
                 /\ q_idx' = 0
                 /\ io' = << >>
                 /\ q_err' = "KeyError"
       ELSE /\ q_pc' = "geocode"
            /\ q_srcs' = << >>
            /\ q_idx' = 0
            /\ io' = <<IO("geocode", 0, <<0, 0>>)>>
            /\ q_err' = "none"

\* the membership test left out: COUNTRY_MAP.get(..., []) then yields no provider
CountryKnownAlways(code) == TRUE

\* if geocoded.upper() not in COUNTRY_MAP: raise ValueError
CountryKnown(code) == code \in DOMAIN COUNTRY_MAP

\* The geocode lookup answers with country code c.
GeocodeReturn(c) ==
    /\ q_pc = "geocode"
    /\ q_geocoded' = c
    /\ IF CountryKnown(Upper(c))
       THEN /\ q_pc' = "loop"
            /\ q_srcs' = CountryProviders(Upper(c))
            /\ q_idx' = 1
            /\ q_err' = "none"
       ELSE /\ q_pc' = "raised"
            /\ q_srcs' = << >>
            /\ q_idx' = 0
            /\ q_err' = "ValueError"
    /\ UNCHANGED <<q_kind, q_source_id, q_site_id, q_radius, q_fuel_type,
                   locations, fetch, fetch_sem, io, q_result>>
    /\ UNCHANGED <<createVars, accessed_sites, updateVars, sourceVars>>

\* The geocode lookup finds no address and answers None: None has no .raw.
GeocodeNone ==
    /\ q_pc = "geocode"
    /\ q_pc' = "raised"
    /\ q_err' = "AttributeError"
    /\ UNCHANGED <<q_kind, q_source_id, q_site_id, q_radius, q_fuel_type, q_geocoded,
                   q_srcs, q_idx, locations, fetch, fetch_sem, io, q_result>>
    /\ UNCHANGED <<createVars, accessed_sites, updateVars, sourceVars>>

\* the loop without its test
ShouldSearchAll(src) == TRUE

\* if src in self.configured_sources:
ShouldSearch(src) == HasSource(src)

\* for src in COUNTRY_MAP.get(...): a provider that is not configured is passed over.
LoopSkip ==
    /\ q_pc = "loop"
    /\ q_idx <= Len(q_srcs)
    /\ ~ShouldSearch(q_srcs[q_idx])
    /\ q_idx' = q_idx + 1
    /\ UNCHANGED <<q_pc, q_kind, q_source_id, q_site_id, q_radius, q_fuel_type, q_geocoded,
                   q_srcs, locations, fetch, fetch_sem, io, q_result, q_err>>
    /\ UNCHANGED <<createVars, accessed_sites, updateVars, sourceVars>>

\* for src in COUNTRY_MAP.get(...): a configured provider's search_sites is awaited.
LoopSearch ==
    /\ q_pc = "loop"
    /\ q_idx <= Len(q_srcs)
    /\ ShouldSearch(q_srcs[q_idx])
    /\ q_pc' = "search"
    /\ io' = Append(io, IO("search_sites", q_srcs[q_idx], <<0, 0>>))
    /\ UNCHANGED <<q_kind, q_source_id, q_site_id, q_radius, q_fuel_type, q_geocoded,
                   q_srcs, q_idx, locations, fetch, fetch_sem, q_result, q_err>>
    /\ UNCHANGED <<createVars, accessed_sites, updateVars, sourceVars>>

\* locations.extend(...)
Extend(locs, found) == locs \o found

\* search_sites returns its list.
SearchReturn ==
    /\ q_pc = "search"
    /\ locations' = Extend(locations, SearchSites(q_srcs[q_idx], q_radius))
    /\ q_idx' = q_idx + 1
    /\ q_pc' = "loop"
    /\ UNCHANGED <<q_kind, q_source_id, q_site_id, q_radius, q_fuel_type, q_geocoded,
                   q_srcs, fetch, fetch_sem, io, q_result, q_err>>
    /\ UNCHANGED <<createVars, accessed_sites, updateVars, sourceVars>>

\* search_sites times out (its refresh awaits the provider): nothing catches it.
SearchTimeout ==
    /\ q_pc = "search"
    /\ q_pc' = "raised"
    /\ q_err' = "TimeoutError"
    /\ UNCHANGED <<q_kind, q_source_id, q_site_id, q_radius, q_fuel_type, q_geocoded,
                   q_srcs, q_idx, locations, fetch, fetch_sem, io, q_result>>
    /\ UNCHANGED <<createVars, accessed_sites, updateVars, sourceVars>>

\* one coroutine for the locations only whose id is not in accessed_sites yet
DynamicBuildsNotAccessed(locs) ==
    [k \in 1..Len(locs) |->
        IF locs[k].id \in DOMAIN accessed_sites THEN "done" ELSE "created"]

\* coros = [dynamic_build(l) for l in locations]: one coroutine per location
DynamicBuilds(locs) == [k \in 1..Len(locs) |-> "created"]

\* return locations: find_fuel_locations_from_point is done. Called directly it
\* returns the list; in find_fuel_from_point one dynamic_build coroutine is made
\* per location and gathered.
LocationsFound ==
    /\ q_pc = "loop"
    /\ q_idx > Len(q_srcs)
    /\ IF q_kind = "find_fuel_locations_from_point"
       THEN /\ q_pc' = "returned"
            /\ q_result' = locations
            /\ UNCHANGED <<fetch, fetch_sem>>
       ELSE /\ q_pc' = "gather"
            /\ fetch' = DynamicBuilds(locations)
            /\ fetch_sem' = [k \in 1..Len(locations) |-> SiteSemaphore]
            /\ UNCHANGED q_result
    /\ UNCHANGED <<q_kind, q_source_id, q_site_id, q_radius, q_fuel_type, q_geocoded,
                   q_srcs, q_idx, locations, io, q_err>>
    /\ UNCHANGED <<createVars, accessed_sites, updateVars, sourceVars>>

\* ---------------------------------------------------- FuelPrices.find_fuel_from_point

\* str(l["props"]["source"]).lower(): the provider id the location carries
SourceKey(loc) == loc.source

\* async with asyncio.Semaphore(5): each task constructs its own semaphore,
\* so the semaphore a task waits on is identified by the task itself.
FetchSemaphoreOf(k) == k

Fetching == {k \in DOMAIN fetch : fetch[k] = "fetching"}

\* dynamic_build(l) up to its first suspension. The event loop starts the
\* gathered tasks in the order of the list. The semaphore is acquired and
\* get_fuel_location(l["id"], source) runs up to its await of get_site.
FetchStart(k) ==
    /\ k \in DOMAIN fetch
    /\ fetch[k] = "created"
    /\ \A j \in 1..(k - 1) : fetch[j] # "created"
    /\ fetch_sem[FetchSemaphoreOf(k)] > 0
    /\ accessed_sites' = RecordAccess(accessed_sites, locations[k].id, SourceKey(locations[k]))
    /\ IF HasSource(SourceKey(locations[k]))
       THEN /\ fetch' = [fetch EXCEPT ![k] = "fetching"]
            /\ fetch_sem' = [fetch_sem EXCEPT ![FetchSemaphoreOf(k)] = @ - 1]
            /\ io' = Append(io, IO("get_site", SourceKey(locations[k]), locations[k].id))
       ELSE /\ fetch' = [fetch EXCEPT ![k] = "KeyError"]
            /\ UNCHANGED <<fetch_sem, io>>
    /\ UNCHANGED <<q_pc, q_kind, q_source_id, q_site_id, q_radius, q_fuel_type, q_geocoded,
                   q_srcs, q_idx, locations, q_result, q_err>>
    /\ UNCHANGED <<createVars, updateVars, sourceVars>>

\* get_site returns: the semaphore is released and dynamic_build ends.
FetchReturn(k) ==
    /\ k \in DOMAIN fetch
    /\ fetch[k] = "fetching"
    /\ fetch' = [fetch EXCEPT ![k] = "done"]
    /\ fetch_sem' = [fetch_sem EXCEPT ![FetchSemaphoreOf(k)] = @ + 1]
    /\ UNCHANGED <<q_pc, q_kind, q_source_id, q_site_id, q_radius, q_fuel_type, q_geocoded,
                   q_srcs, q_idx, locations, io, q_result, q_err>>
    /\ UNCHANGED <<createVars, accessed_sites, updateVars, sourceVars>>

\* get_site times out: the semaphore is released and, dynamic_build catching
\* nothing, the task ends with the TimeoutError.
FetchTimeout(k) ==
    /\ k \in DOMAIN fetch
    /\ fetch[k] = "fetching"
    /\ fetch' = [fetch EXCEPT ![k] = "TimeoutError"]
    /\ fetch_sem' = [fetch_sem EXCEPT ![FetchSemaphoreOf(k)] = @ + 1]
    /\ UNCHANGED <<q_pc, q_kind, q_source_id, q_site_id, q_radius, q_fuel_type, q_geocoded,
                   q_srcs, q_idx, locations, io, q_result, q_err>>
    /\ UNCHANGED <<createVars, accessed_sites, updateVars, sourceVars>>

\* await asyncio.gather(*coros): the exception of a task is raised to the caller
\* of find_fuel_from_point at once; the other tasks are not cancelled.
GatherRaise ==
    /\ q_pc = "gather"
    /\ \E k \in DOMAIN fetch :
          /\ fetch[k] \in {"TimeoutError", "KeyError"}
          /\ q_err' = fetch[k]
    /\ q_pc' = "raised"
    /\ UNCHANGED <<q_kind, q_source_id, q_site_id, q_radius, q_fuel_type, q_geocoded,
                   q_srcs, q_idx, locations, fetch, fetch_sem, io, q_result>>
    /\ UNCHANGED <<createVars, accessed_sites, updateVars, sourceVars>>

\* for loc in locations: if loc["id"] not in self._accessed_sites: ...
RECURSIVE RecordAll(_, _)
RecordAll(acc, locs) ==
    IF locs = << >> THEN acc
    ELSE RecordAll(RecordAccess(acc, Head(locs).id, Head(locs).source), Tail(locs))

\* the price test with >= for >
FuelSelectedNonNegative(available_fuels, fuel, fuel_type) ==
    fuel = fuel_type /\ available_fuels[fuel] >= 0

\* if (fuel == fuel_type) and (loc["available_fuels"][fuel] > 0):
FuelSelected(available_fuels, fuel, fuel_type) ==
    fuel = fuel_type /\ available_fuels[fuel] > 0

\* for fuel in loc["available_fuels"]: fuels.append({name, cost, distance})
LocationFuels(loc, fuel_type) ==
    LET Hit(fuel) == /\ fuel \in DOMAIN loc.available_fuels
                     /\ FuelSelected(loc.available_fuels, fuel, fuel_type)
        hits == SelectSeq(FuelOrder, Hit)
    IN [n \in 1..Len(hits) |->
          [name |-> loc.name, cost |-> loc.available_fuels[hits[n]], distance |-> loc.distance]]

\* for loc in locations: ...
RECURSIVE CollectFuels(_, _)
CollectFuels(locs, fuel_type) ==
    IF locs = << >> THEN << >>
    ELSE LocationFuels(Head(locs), fuel_type) \o CollectFuels(Tail(locs), fuel_type)

\* An item put into an ascending list behind every item that does not cost more.
RECURSIVE InsertByCost(_, _)
InsertByCost(sorted, item) ==
    IF sorted = << >> THEN <<item>>
    ELSE IF Head(sorted).cost <= item.cost
         THEN <<Head(sorted)>> \o InsertByCost(Tail(sorted), item)
         ELSE <<item>> \o sorted

\* An item put into an ascending list before the first item that does not cost
\* less: ascending, but equal costs end in reverse order.
RECURSIVE InsertByCostUnstable(_, _)
InsertByCostUnstable(sorted, item) ==
    IF sorted = << >> THEN <<item>>
    ELSE IF Head(sorted).cost < item.cost
         THEN <<Head(sorted)>> \o InsertByCostUnstable(Tail(sorted), item)
         ELSE <<item>> \o sorted

\* a sort that is ascending and not stable
RECURSIVE SortedByCostUnstable(_)
SortedByCostUnstable(fuels) ==
    IF fuels = << >> THEN << >>
    ELSE InsertByCostUnstable(SortedByCostUnstable(SubSeq(fuels, 1, Len(fuels) - 1)),
                              fuels[Len(fuels)])

\* sorted(fuels, key=lambda item: item["cost"]): ascending, and stable
RECURSIVE SortedByCost(_)
SortedByCost(fuels) ==
    IF fuels = << >> THEN << >>
    ELSE InsertByCost(SortedByCost(SubSeq(fuels, 1, Len(fuels) - 1)), fuels[Len(fuels)])

\* gather has returned: the sites are recorded, the fuels collected and ranked.
FindFuelReturn ==
    /\ q_pc = "gather"
    /\ \A k \in DOMAIN fetch : fetch[k] = "done"
    /\ accessed_sites' = RecordAll(accessed_sites, locations)
    /\ q_result' = SortedByCost(CollectFuels(locations, q_fuel_type))
    /\ q_pc' = "returned"
    /\ UNCHANGED <<q_kind, q_source_id, q_site_id, q_radius, q_fuel_type, q_geocoded,
                   q_srcs, q_idx, locations, fetch, fetch_sem, io, q_err>>
    /\ UNCHANGED <<createVars, updateVars, sourceVars>>

\* ------------------------------------------------------------ FuelPrices.update

\* The exceptions s.update can end with: a timeout of the client session, or
\* any other failure of the request, which QuechoisirSource.update does not catch.
Exceptions == {"TimeoutError", "ClientError"}

\* update_src without its except clause
UpdateSrcCatchesNothing(exc) == FALSE

\* except TimeoutError as err: (update_src)
UpdateSrcCatches(exc) == exc = "TimeoutError"

\* async with asyncio.Semaphore(4): each task constructs its own semaphore,
\* so the semaphore a task waits on is identified by the task itself.
UpdateSemaphoreOf(s) == s

Updating == {s \in SOURCE_MAP : task[s] = "updating"}

\* update(force): coros = [update_src(s, ...) for s in configured_sources.values()]
UpdateCall(force) ==
    /\ upd_pc \in {"idle", "returned", "raised"}
    /\ \A s \in SOURCE_MAP : task[s] \notin {"created", "updating"}
    /\ upd_pc' = "gather"
    /\ upd_force' = force
    /\ task' = [s \in SOURCE_MAP |->
                  IF s \in DOMAIN configured_sources THEN "created" ELSE "none"]
    /\ outcome' = [s \in SOURCE_MAP |-> "none"]
    /\ upd_sem' = [s \in SOURCE_MAP |-> UpdateSemaphore]
    /\ UNCHANGED <<createVars, accessed_sites, queryVars, sourceVars>>

\* update_src up to its first suspension: the semaphore is acquired and
\* s.update(areas=a, force=f) is awaited.
UpdateSrcStart(s) ==
    /\ task[s] = "created"
    /\ upd_sem[UpdateSemaphoreOf(s)] > 0
    /\ upd_sem' = [upd_sem EXCEPT ![UpdateSemaphoreOf(s)] = @ - 1]
    /\ task' = [task EXCEPT ![s] = "updating"]
    /\ UNCHANGED <<upd_pc, upd_force, outcome>>
    /\ UNCHANGED <<createVars, accessed_sites, queryVars, sourceVars>>

\* s.update returns: the semaphore is released and update_src ends.
UpdateSrcReturn(s) ==
    /\ task[s] = "updating"
    /\ upd_sem' = [upd_sem EXCEPT ![UpdateSemaphoreOf(s)] = @ + 1]
    /\ task' = [task EXCEPT ![s] = "done"]
    /\ outcome' = [outcome EXCEPT ![s] = "ok"]
    /\ UNCHANGED <<upd_pc, upd_force>>
    /\ UNCHANGED <<createVars, accessed_sites, queryVars, sourceVars>>

\* s.update raises: the semaphore is released; a caught exception is logged
\* and update_src ends normally, any other one ends the task with it.
UpdateSrcRaise(s, exc) ==
    /\ task[s] = "updating"
    /\ upd_sem' = [upd_sem EXCEPT ![UpdateSemaphoreOf(s)] = @ + 1]
    /\ task' = [task EXCEPT ![s] = IF UpdateSrcCatches(exc) THEN "done" ELSE "failed"]
    /\ outcome' = [outcome EXCEPT ![s] = exc]
    /\ UNCHANGED <<upd_pc, upd_force>>
    /\ UNCHANGED <<createVars, accessed_sites, queryVars, sourceVars>>

\* a wait that ends with the first task to end
GatherFirstDone == \E s \in SOURCE_MAP : task[s] = "done"

\* asyncio.gather(*coros) has its result when every task it was given has
\* ended normally.
GatherDone == \A s \in SOURCE_MAP : task[s] \in {"none", "done"}

\* await asyncio.gather(*coros): every task has ended normally.
UpdateReturn ==
    /\ upd_pc = "gather"
    /\ GatherDone
    /\ upd_pc' = "returned"
    /\ UNCHANGED <<upd_force, task, outcome, upd_sem>>
    /\ UNCHANGED <<createVars, accessed_sites, queryVars, sourceVars>>

\* await asyncio.gather(*coros): the first exception of a task is raised to
\* the caller at once; the other tasks are not cancelled and keep running.
UpdateRaise ==
    /\ upd_pc = "gather"
    /\ \E s \in SOURCE_MAP : task[s] = "failed"
    /\ upd_pc' = "raised"
    /\ UNCHANGED <<upd_force, task, outcome, upd_sem>>
    /\ UNCHANGED <<createVars, accessed_sites, queryVars, sourceVars>>

\* ------------------------------------------------- QuechoisirSource.parse_fuels

\* A text is the sequence of its characters.
Digits == {"0", "1", "2", "3", "4", "5", "6", "7", "8", "9"}

DigitValue(c) ==
    CASE c = "0" -> 0 [] c = "1" -> 1 [] c = "2" -> 2 [] c = "3" -> 3 [] c = "4" -> 4
      [] c = "5" -> 5 [] c = "6" -> 6 [] c = "7" -> 7 [] c = "8" -> 8 [] c = "9" -> 9

\* str(value): a value carries its type and the text str() gives for it
Str(value) == value.text

\* .replace(",", "")
IsNotComma(c) == c # ","
RemoveCommas(text) == SelectSeq(text, IsNotComma)

\* float(text) raises ValueError unless the text is a number (here: digits)
IsFloat(text) == text # << >> /\ \A n \in 1..Len(text) : text[n] \in Digits

RECURSIVE Float(_)
Float(text) ==
    IF text = << >> THEN 0
    ELSE Float(SubSeq(text, 1, Len(text) - 1)) * 10 + DigitValue(text[Len(text)])

\* Fuel(fuel_type=fuel["nom"], cost=cost, props=fuel), the cost
\* float(..) / 1000 kept in thousandths
Fuel(fuel_type, cost, props) == [fuel_type |-> fuel_type, cost |-> cost, props |-> props]

\* The body of the try block for one entry: fuel["prix"] is read first, then
\* converted, then fuel["nom"] is read.
ParseFuel(fuel) ==
    IF "prix" \notin DOMAIN fuel THEN [err |-> "KeyError", fuel |-> << >>]
    ELSE LET text == RemoveCommas(Str(fuel.prix)) IN
         IF ~IsFloat(text) THEN [err |-> "ValueError", fuel |-> << >>]
         ELSE IF "nom" \notin DOMAIN fuel THEN [err |-> "KeyError", fuel |-> << >>]
         ELSE [err |-> "none", fuel |-> Fuel(fuel.nom, Float(text), fuel)]

\* except ValueError: continue
ParseFuelsCatches(exc) == exc = "ValueError"

\* for fuel in fuels: ... ; return fuel_parsed
RECURSIVE ParseFuelsFrom(_, _)
ParseFuelsFrom(fuels, fuel_parsed) ==
    IF fuels = << >> THEN [err |-> "none", fuel_parsed |-> fuel_parsed]
    ELSE LET r == ParseFuel(Head(fuels)) IN
         IF r.err = "none" THEN ParseFuelsFrom(Tail(fuels), Append(fuel_parsed, r.fuel))
         ELSE IF ParseFuelsCatches(r.err) THEN ParseFuelsFrom(Tail(fuels), fuel_parsed)
         ELSE [err |-> r.err, fuel_parsed |-> << >>]

\* parse_fuels(fuels)
ParseFuels(fuels) == ParseFuelsFrom(fuels, << >>)

\* A call of parse_fuels on the list pf_fuels.
ParseFuelsCall ==
    /\ pf_pc = "idle"
    /\ LET r == ParseFuels(pf_fuels) IN
        /\ pf_pc' = IF r.err = "none" THEN "returned" ELSE "raised"
        /\ pf_result' = r.fuel_parsed
        /\ pf_err' = r.err
    /\ UNCHANGED pf_fuels
    /\ UNCHANGED <<createVars, accessed_sites, updateVars, queryVars, cacheVars, refreshVars>>

\* ------------------------------------- QuechoisirSource.parse_raw_fuel_station

\* provider_name = "quechoisir", the first provider of the mapping
ProviderName == 1

\* site_id = f"{self.provider_name}_{station['id']}"
SiteId(station) == <<ProviderName, station.id>>

\* FuelLocation.create(.., available_fuels=[Fuel, ..]) keeps the fuels as a
\* mapping fuel_type -> cost; of two fuels of one type the later one stays.
RECURSIVE AsMapping(_)
AsMapping(fuel_list) ==
    IF fuel_list = << >> THEN << >>
    ELSE LET last == fuel_list[Len(fuel_list)] IN
         Put(AsMapping(SubSeq(fuel_list, 1, Len(fuel_list) - 1)), last.fuel_type, last.cost)

\* loc = FuelLocation.create(site_id=site_id, .., available_fuels=.., ..): a new
\* object, obj being its identity
FuelLocationCreate(site_id, fuel_list, obj) ==
    [id |-> site_id, obj |-> obj, available_fuels |-> AsMapping(fuel_list)]

\* FuelLocation.update(updated): the object stays (and keeps its id), its
\* available_fuels are merged key by key with those of updated.
FuelLocationUpdate(existing, updated) ==
    [existing EXCEPT !.available_fuels =
        [f \in DOMAIN existing.available_fuels \cup DOMAIN updated.available_fuels |->
            IF f \in DOMAIN updated.available_fuels
            THEN updated.available_fuels[f] ELSE existing.available_fuels[f]]]

\* site_id in self.location_cache
InCache(cache, site_id) == \E n \in 1..Len(cache) : cache[n].id = site_id

\* self.location_cache[site_id]
CacheIndex(cache, site_id) == CHOOSE n \in 1..Len(cache) : cache[n].id = site_id

\* self.location_cache[site_id] = loc whether or not the site is cached
StoreLocationReplace(cache, loc) ==
    IF ~InCache(cache, loc.id) THEN Append(cache, loc)
    ELSE [cache EXCEPT ![CacheIndex(cache, loc.id)] = loc]

\* if site_id not in self.location_cache: self.location_cache[site_id] = loc
\* else: await self.location_cache[site_id].update(loc)
StoreLocation(cache, loc) ==
    IF ~InCache(cache, loc.id) THEN Append(cache, loc)
    ELSE [cache EXCEPT ![CacheIndex(cache, loc.id)] = FuelLocationUpdate(@, loc)]

NoLocation == [id |-> <<0, 0>>, obj |-> 0, available_fuels |-> << >>]

\* parse_raw_fuel_station(station) on the cache st.cache, st.objects objects
\* having been created: parse_fuels may raise (before any object is made);
\* what is returned is the cached object.
ParseRawFuelStation(station, st) ==
    LET fuels == ParseFuels(station.carburants) IN
    IF fuels.err # "none"
    THEN [st EXCEPT !.err = fuels.err, !.ret = NoLocation]
    ELSE LET loc == FuelLocationCreate(SiteId(station), fuels.fuel_parsed, st.objects + 1)
             cache == StoreLocation(st.cache, loc)
         IN [err |-> "none", cache |-> cache, objects |-> st.objects + 1,
             parsed |-> st.parsed \cup {loc.id}, ret |-> cache[CacheIndex(cache, loc.id)]]

\* for station in response["carburants"]["carburant"]:
\*     await self.parse_raw_fuel_station(station)
RECURSIVE ParseStations(_, _)
ParseStations(stations, st) ==
    IF stations = << >> THEN st
    ELSE LET r == ParseRawFuelStation(Head(stations), st) IN
         IF r.err # "none" THEN r ELSE ParseStations(Tail(stations), r)

\* no update or search_sites of the source is in flight
SourceIdle == s_pc \in {"idle", "returned", "raised"}

SourceState ==
    [err |-> "none", cache |-> location_cache, objects |-> objects, parsed |-> parsed,
     ret |-> NoLocation]

\* A call of parse_raw_fuel_station(station).
ParseStationCall(station) ==
    /\ SourceIdle
    /\ objects < MaxParses
    /\ LET r == ParseRawFuelStation(station, SourceState) IN
        /\ location_cache' = r.cache
        /\ objects' = r.objects
        /\ parsed' = r.parsed
        /\ parse_ret' = <<r.ret>>
        /\ parse_err' = r.err
    /\ parse_op' = "parse_raw_fuel_station"
    /\ UNCHANGED <<createVars, accessed_sites, updateVars, queryVars, parseVars, refreshVars>>

\* A call of parse_response(response): return list(self.location_cache.values())
ParseResponseCall(stations) ==
    /\ SourceIdle
    /\ objects + Len(stations) <= MaxParses
    /\ LET r == ParseStations(stations, SourceState) IN
        /\ location_cache' = r.cache
        /\ objects' = r.objects
        /\ parsed' = r.parsed
        /\ parse_ret' = IF r.err = "none" THEN r.cache ELSE << >>
        /\ parse_err' = r.err
    /\ parse_op' = "parse_response"
    /\ UNCHANGED <<createVars, accessed_sites, updateVars, queryVars, parseVars, refreshVars>>

\* --------------------------------- QuechoisirSource.update and search_sites

\* The areas asked about, and the country the geocoder finds each in.
Areas == {"paris", "lyon", "london"}
AreaCountry(area) == IF area = "london" THEN "gb" ELSE "fr"

Request(url, area) == [url |-> url, area |-> area]

\* The rest of update's loop after the current area: the next area is geocoded;
\* after the last one update returns (None), and search_sites goes on to select
\* the cached sites within the radius.
NextArea ==
    /\ s_areas' = Tail(s_areas)
    /\ IF Len(s_areas) > 1
       THEN /\ s_pc' = "geocode"
            /\ UNCHANGED s_result
       ELSE /\ s_pc' = "returned"
            /\ s_result' = IF s_op = "search_sites"
                           THEN SearchCache(location_cache, s_radius) ELSE << >>

\* update(areas, force) up to its first await: self._configured_areas is set
\* and the first area is geocoded; without areas update returns at once.
SourceUpdateCall(areas, force) ==
    /\ SourceIdle
    /\ s_op' = "update"
    /\ s_areas' = areas
    /\ s_force' = force
    /\ s_pc' = IF areas = << >> THEN "returned" ELSE "geocode"
    /\ requests' = << >>
    /\ s_fetched' = {}
    /\ s_result' = << >>
    /\ s_err' = "none"
    /\ UNCHANGED <<s_radius, fetched, now, next_update>>
    /\ UNCHANGED <<createVars, accessed_sites, updateVars, queryVars, parseVars, cacheVars>>

\* search_sites(coordinates, radius) up to its first await:
\* await self.update(areas=[{lat, long}]), force being left at its default.
SearchSitesCall(area, radius) ==
    /\ SourceIdle
    /\ s_op' = "search_sites"
    /\ s_areas' = <<area>>
    /\ s_force' = FALSE
    /\ s_radius' = radius
    /\ s_pc' = "geocode"
    /\ requests' = << >>
    /\ s_fetched' = {}
    /\ s_result' = << >>
    /\ s_err' = "none"
    /\ UNCHANGED <<fetched, now, next_update>>
    /\ UNCHANGED <<createVars, accessed_sites, updateVars, queryVars, parseVars, cacheVars>>

\* geocode_reverse_lookup returns: nothing found, or an address outside
\* France (the area is skipped), or a French one: lookup_commune_id sends its
\* request.
AreaGeocoded(found) ==
    /\ s_pc = "geocode"
    /\ IF found /\ AreaCountry(Head(s_areas)) = "fr"
       THEN /\ s_pc' = "commune"
            /\ requests' = Append(requests, Request("LOOKUP_POSTCODE", Head(s_areas)))
            /\ UNCHANGED <<s_areas, s_result>>
       ELSE /\ NextArea
            /\ UNCHANGED requests
    /\ UNCHANGED <<s_op, s_force, s_radius, s_fetched, s_err, fetched, now, next_update>>
    /\ UNCHANGED <<createVars, accessed_sites, updateVars, queryVars, parseVars, cacheVars>>

\* The answers of the upstream to a request: a response that is ok, with
\* content or without, or one that is not ok (_send_request returns None).
CommuneAnswers == {"commune", "empty", "not ok"}

\* lookup_commune_id returns: with a commune id the station listing is
\* requested, without one the area is skipped.
CommuneReturn(answer) ==
    /\ s_pc = "commune"
    /\ IF answer = "commune"
       THEN /\ s_pc' = "stations"
            /\ requests' = Append(requests, Request("GET_GAS_STATION", Head(s_areas)))
            /\ UNCHANGED <<s_areas, s_result>>
       ELSE /\ NextArea
            /\ UNCHANGED requests
    /\ UNCHANGED <<s_op, s_force, s_radius, s_fetched, s_err, fetched, now, next_update>>
    /\ UNCHANGED <<createVars, accessed_sites, updateVars, queryVars, parseVars, cacheVars>>

\* The listing request is answered: if data is None: continue, else
\* data = json.loads(data), and the loop body ends there: the listing is
\* not given to parse_response.
StationsReturn(ok, stations) ==
    /\ s_pc = "stations"
    /\ fetched' = IF ok THEN fetched \cup {Head(s_areas)} ELSE fetched
    /\ s_fetched' = IF ok THEN s_fetched \cup {SiteId(stations[n]) : n \in 1..Len(stations)}
                    ELSE s_fetched
    /\ NextArea
    /\ UNCHANGED <<s_op, s_force, s_radius, requests, s_err, now, next_update>>
    /\ UNCHANGED <<createVars, accessed_sites, updateVars, queryVars, parseVars, cacheVars>>

\* The client session's post times out: nothing in update or search_sites
\* catches the TimeoutError.
RequestTimeout ==
    /\ s_pc \in {"commune", "stations"}
    /\ s_pc' = "raised"
    /\ s_err' = "TimeoutError"
    /\ UNCHANGED <<s_op, s_areas, s_force, s_radius, requests, s_fetched, s_result,
                   fetched, now, next_update>>
    /\ UNCHANGED <<createVars, accessed_sites, updateVars, queryVars, parseVars, cacheVars>>

\* Time passes.
Tick ==
    /\ now < MaxTime
    /\ now' = now + 1
    /\ UNCHANGED <<s_pc, s_op, s_areas, s_force, s_radius, requests, s_fetched, s_result,
                   s_err, fetched, next_update>>
    /\ UNCHANGED <<createVars, accessed_sites, updateVars, queryVars, parseVars, cacheVars>>

\* ------------------------------------------------------------ specifications

NoFuels == << >>

InitParseIdle ==
    /\ pf_fuels = NoFuels
    /\ pf_pc = "idle"
    /\ pf_result = << >>
    /\ pf_err = "none"

\* location_cache = {} (class body): nothing is cached, nothing was parsed
InitCacheIdle ==
    /\ location_cache = << >>
    /\ objects = 0
    /\ parsed = {}
    /\ parse_op = "none"
    /\ parse_ret = << >>
    /\ parse_err = "none"

\* The Source base class sets next_update when the source is constructed:
\* the time after which a refresh is permitted.
NextUpdateTimes == 0..MaxTime

\* No call of the source is in flight; no area was fetched.
InitRefreshIdle ==
    /\ s_pc = "idle"
    /\ s_op = "none"
    /\ s_areas = << >>
    /\ s_force = FALSE
    /\ s_radius = 0
    /\ requests = << >>
    /\ s_fetched = {}
    /\ s_result = << >>
    /\ s_err = "none"
    /\ fetched = {}
    /\ now = 0
    /\ next_update \in NextUpdateTimes

InitSourceIdle ==
    /\ InitParseIdle
    /\ InitCacheIdle
    /\ InitRefreshIdle
    /\ next_update = 0


InitUpdateIdle ==
    /\ upd_pc = "idle"
    /\ upd_force = FALSE
    /\ task = [s \in SOURCE_MAP |-> "none"]
    /\ outcome = [s \in SOURCE_MAP |-> "none"]
    /\ upd_sem = [s \in SOURCE_MAP |-> UpdateSemaphore]

InitQueryIdle ==
    /\ q_pc = "idle"
    /\ q_kind = "none"
    /\ q_source_id = NoSource
    /\ q_site_id = <<0, 0>>
    /\ q_radius = 0
    /\ q_fuel_type = ""
    /\ q_geocoded = ""
    /\ q_srcs = << >>
    /\ q_idx = 0
    /\ locations = << >>
    /\ fetch = << >>
    /\ fetch_sem = << >>
    /\ io = << >>
    /\ q_result = << >>
    /\ q_err = "none"

\* The class attributes as the class body leaves them: no FuelPrices exists yet.
InitCreate ==
    /\ configured_sources = << >>
    /\ accessed_sites = << >>
    /\ instances = 0
    /\ actor = 0
    /\ create_result = "none"
    /\ InitUpdateIdle
    /\ InitSourceIdle
    /\ InitQueryIdle

\* One FuelPrices, built by create(config) with the valid enabled_sources cfg.
Created(cfg) ==
    /\ configured_sources = [s \in cfg |-> 1]
    /\ accessed_sites = << >>
    /\ instances = 1
    /\ actor = 1
    /\ create_result = "ok"

\* The calls of the lifecycle specification: the first station of the first
\* two providers, asked of either of them or of an unknown provider.
LifecycleSites == {s \in SiteIds : s[1] <= 2 /\ s[2] = 1}
LifecycleSourceIds == {1, 2, UnknownSource}

\* Instances are created and single locations are asked of them.
NextCreate ==
    \/ \E config \in Configs : Create(config)
    \/ \E i \in 1..MaxInstances, site_id \in LifecycleSites, source_id \in LifecycleSourceIds :
          GetFuelLocationCall(i, site_id, source_id)
    \/ GetSiteReturn
    \/ GetSiteTimeout

SpecCreate == InitCreate /\ [][NextCreate]_vars

\* update on a FuelPrices with any set of configured sources.
InitUpdate ==
    /\ \E cfg \in SUBSET SOURCE_MAP : Created(cfg)
    /\ InitUpdateIdle
    /\ InitSourceIdle
    /\ InitQueryIdle

NextUpdate ==
    \/ \E force \in BOOLEAN : UpdateCall(force)
    \/ \E s \in SOURCE_MAP : UpdateSrcStart(s)
    \/ \E s \in SOURCE_MAP : UpdateSrcReturn(s)
    \/ \E s \in SOURCE_MAP, exc \in Exceptions : UpdateSrcRaise(s, exc)
    \/ UpdateReturn
    \/ UpdateRaise

SpecUpdate == InitUpdate /\ [][NextUpdate]_vars

\* The event loop runs every task that is ready (a created task starts, the
\* caller is resumed when gather has its result or its exception), and every
\* s.update that was awaited ends, by returning or by raising.
UpdateFairness ==
    /\ \A s \in SOURCE_MAP : WF_vars(UpdateSrcStart(s))
    /\ \A s \in SOURCE_MAP :
          WF_vars(UpdateSrcReturn(s) \/ \E exc \in Exceptions : UpdateSrcRaise(s, exc))
    /\ WF_vars(UpdateReturn)
    /\ WF_vars(UpdateRaise)

SpecUpdateFair == InitUpdate /\ [][NextUpdate]_vars /\ UpdateFairness

\* One query on a fresh FuelPrices: every provider but the third of the first
\* country is configured, or its second provider is left out as well.
QueryConfigs == {SOURCE_MAP \ {5}, SOURCE_MAP \ {2, 5}}
SourceIds == {NoSource} \cup SOURCE_MAP \cup {UnknownSource}

InitQuery ==
    /\ \E cfg \in QueryConfigs : Created(cfg)
    /\ InitUpdateIdle
    /\ InitSourceIdle
    /\ InitQueryIdle

NextQuery ==
    \/ \E site_id \in SiteIds, source_id \in SourceIds :
          q_kind = "none" /\ GetFuelLocationCall(1, site_id, source_id)
    \/ \E kind \in FindKinds, source_id \in SourceIds, radius \in Radii, fuel_type \in FuelTypes :
          q_kind = "none" /\ FindCall(1, kind, source_id, radius, fuel_type)
    \/ GetSiteReturn
    \/ GetSiteTimeout
    \/ \E c \in GeocodeCodes : GeocodeReturn(c)
    \/ GeocodeNone
    \/ LoopSkip
    \/ LoopSearch
    \/ SearchReturn
    \/ SearchTimeout
    \/ LocationsFound
    \/ \E k \in DOMAIN fetch : FetchStart(k)
    \/ \E k \in DOMAIN fetch : FetchReturn(k)
    \/ \E k \in DOMAIN fetch : FetchTimeout(k)
    \/ GatherRaise
    \/ FindFuelReturn

SpecQuery == InitQuery /\ [][NextQuery]_vars

\* Calls one after another on one FuelPrices with providers 1 and 3: single
\* locations of provider 1 are asked of it, of provider 3 or of an unknown
\* provider, and the cheapest fuel is asked of provider 1.
AccessSites == {s \in SiteIds : s[1] = 1 /\ s[2] <= 2}
AccessSourceIds == {1, 3, UnknownSource}
AccessRadii == {r \in Radii : r = 2 \/ r = SitesPerSource + 1}

InitAccess ==
    /\ Created({1, 3})
    /\ InitUpdateIdle
    /\ InitSourceIdle
    /\ InitQueryIdle

NextAccess ==
    \/ \E site_id \in AccessSites, source_id \in AccessSourceIds :
          GetFuelLocationCall(1, site_id, source_id)
    \/ \E radius \in AccessRadii : FindCall(1, "find_fuel_from_point", 1, radius, "E10")
    \/ GetSiteReturn
    \/ GetSiteTimeout
    \/ SearchReturn
    \/ SearchTimeout
    \/ LocationsFound
    \/ \E k \in DOMAIN fetch : FetchStart(k)
    \/ \E k \in DOMAIN fetch : FetchReturn(k)
    \/ \E k \in DOMAIN fetch : FetchTimeout(k)
    \/ GatherRaise
    \/ FindFuelReturn

SpecAccess == InitAccess /\ [][NextAccess]_vars

\* The entries of an upstream fuels list: a price text with the decimal comma
\* of the upstream or without it, a text that is no number, a price that is
\* None, and entries without the price or without the name.
StrValue(text) == [type |-> "str", text |-> text]
NoneValue == [type |-> "NoneType", text |-> <<"N", "o", "n", "e">>]
FuelEntries ==
    { [nom |-> "E10", prix |-> StrValue(<<"1", ",", "5">>)],
      [nom |-> "B7", prix |-> StrValue(<<"9">>)],
      [nom |-> "E10", prix |-> StrValue(<<"a">>)],
      [nom |-> "B7", prix |-> NoneValue],
      [nom |-> "E10"],
      [prix |-> StrValue(<<"1", "2">>)] }

\* parse_fuels on any list of at most MaxFuels entries.
InitParse ==
    /\ Created({1})
    /\ InitUpdateIdle
    /\ InitQueryIdle
    /\ InitCacheIdle
    /\ InitRefreshIdle
    /\ next_update = 0
    /\ \E n \in 0..MaxFuels : \E fuels \in [1..n -> FuelEntries] : pf_fuels = fuels
    /\ pf_pc = "idle"
    /\ pf_result = << >>
    /\ pf_err = "none"

NextParse == ParseFuelsCall

SpecParse == InitParse /\ [][NextParse]_vars

\* The stations of the upstream: station n with the fuels list of a first
\* listing, of a later one (another price, one fuel more), or with a fuels
\* list that has an entry without its price.
Versions == {"first", "later", "malformed"}
Carburants(version) ==
    CASE version = "first" -> <<[nom |-> "E10", prix |-> StrValue(<<"1", ",", "5">>)]>>
      [] version = "later" -> <<[nom |-> "E10", prix |-> StrValue(<<"1", ",", "6">>)],
                                [nom |-> "B7", prix |-> StrValue(<<"9">>)]>>
      [] version = "malformed" -> <<[nom |-> "E10", prix |-> StrValue(<<"1", ",", "5">>)],
                                    [nom |-> "B7"]>>
Station(n, version) == [id |-> n, carburants |-> Carburants(version)]
Stations == {Station(n, version) : n \in 1..SitesPerSource, version \in Versions}

\* response["carburants"]["carburant"] of the listings the upstream answers with
Listings ==
    { <<Station(1, "first"), Station(2, "first")>>,
      <<Station(1, "later"), Station(1, "first")>>,
      <<Station(2, "later"), Station(1, "malformed"), Station(SitesPerSource, "first")>> }

\* the listing the upstream answers a search's refresh with
SearchListing == <<Station(1, "later"), Station(2, "first")>>

\* One QuechoisirSource: stations and listings are parsed into its cache, and
\* the sites around a point in France are searched.
InitCache ==
    /\ Created({ProviderName})
    /\ InitUpdateIdle
    /\ InitQueryIdle
    /\ InitSourceIdle

NextCache ==
    \/ \E station \in Stations : ParseStationCall(station)
    \/ \E stations \in Listings : ParseResponseCall(stations)
    \/ \E radius \in AccessRadii : SearchSitesCall("paris", radius)
    \/ \E found \in BOOLEAN : AreaGeocoded(found)
    \/ \E answer \in CommuneAnswers : CommuneReturn(answer)
    \/ \E ok \in BOOLEAN : StationsReturn(ok, SearchListing)
    \/ RequestTimeout

SpecCache == InitCache /\ [][NextCache]_vars

\* One QuechoisirSource, whatever next_update its construction gave it: areas
\* are refreshed and searched as time passes.
AreaLists == {<< >>, <<"paris">>, <<"london", "paris">>, <<"paris", "lyon">>}

InitRefresh ==
    /\ Created({ProviderName})
    /\ InitUpdateIdle
    /\ InitQueryIdle
    /\ InitParseIdle
    /\ InitCacheIdle
    /\ InitRefreshIdle

NextRefresh ==
    \/ \E areas \in AreaLists, force \in BOOLEAN : SourceUpdateCall(areas, force)
    \/ \E radius \in Radii : SearchSitesCall("paris", radius)
    \/ \E found \in BOOLEAN : AreaGeocoded(found)
    \/ \E answer \in CommuneAnswers : CommuneReturn(answer)
    \/ \E ok \in BOOLEAN, stations \in Listings : StationsReturn(ok, stations)
    \/ RequestTimeout
    \/ Tick

SpecRefresh == InitRefresh /\ [][NextRefresh]_vars

\* The ranking of find_fuel_from_point on any list of locations: the search on
\* provider 1 has returned locs, every dynamic_build has ended, gather returns.
Costs == {-1, 0, 1, 2}
AvailableFuels == UNION {[D -> Costs] : D \in SUBSET FuelTypes}

\* the list search_sites returns for stations 1..Len(afs) with these available_fuels
RankInput(afs) == [k \in 1..Len(afs) |-> LocationRecord(<<1, k>>, afs[k])]

InitRank ==
    /\ Created({1})
    /\ InitUpdateIdle
    /\ InitSourceIdle
    /\ q_pc = "gather"
    /\ q_kind = "find_fuel_from_point"
    /\ q_source_id = 1
    /\ q_site_id = <<0, 0>>
    /\ q_radius = MaxLocs + 1
    /\ q_fuel_type \in FuelTypes
    /\ q_geocoded = ""
    /\ q_srcs = <<1>>
    /\ q_idx = 2
    /\ \E n \in 0..MaxLocs : \E afs \in [1..n -> AvailableFuels] : locations = RankInput(afs)
    /\ fetch = [k \in 1..Len(locations) |-> "done"]
    /\ fetch_sem = [k \in 1..Len(locations) |-> SiteSemaphore]
    /\ io = <<IO("search_sites", 1, <<0, 0>>)>>
              \o [k \in 1..Len(locations) |-> IO("get_site", 1, locations[k].id)]
    /\ q_result = << >>
    /\ q_err = "none"

NextRank == FindFuelReturn

SpecRank == InitRank /\ [][NextRank]_vars

\* ------------------------------------------------------------------ claims

Configured == DOMAIN configured_sources

\* C1: a TimeoutError of one source's update is caught in that source's task:
\* update never raises because of it (it raises only when some s.update ended
\* with another exception), a task whose s.update timed out ends normally, and
\* once update has returned every configured source's task has run to its end.
C1_TimeoutIsAbsorbed ==
    /\ upd_pc = "raised" => \E s \in Configured : outcome[s] = "ClientError"
    /\ \A s \in Configured : outcome[s] = "TimeoutError" => task[s] = "done"
    /\ upd_pc = "returned" =>
          \A s \in Configured : task[s] = "done" /\ outcome[s] \in {"ok", "TimeoutError"}

\* C1 witness: update returned although one source timed out, another having succeeded.
C1_Witness ==
    /\ upd_pc = "returned"
    /\ \E s, t \in Configured : outcome[s] = "TimeoutError" /\ outcome[t] = "ok"

\* C2 as claimed: at most 4 source refreshes are in progress at the same time.
C2_AtMostFourUpdating == Cardinality(Updating) <= UpdateSemaphore

\* C3 as claimed: at most 5 per-site fetches are in progress at the same time.
C3_AtMostFiveFetching == Cardinality(Fetching) <= SiteSemaphore

\* C4 as claimed: a point query never fails with the timeout of one of its
\* upstream calls (a provider's search_sites, a site's get_site).
C4_TimeoutDoesNotFailQuery ==
    q_kind \in FindKinds => ~(q_pc = "raised" /\ q_err = "TimeoutError")

\* C5: the list find_fuel_from_point returns is ascending by cost, and entries
\* of equal cost stand in the order of their locations (location k of the list
\* searched is named <<1, k>>).
C5_SortedStable ==
    (q_kind = "find_fuel_from_point" /\ q_pc = "returned") =>
        \A i, j \in 1..Len(q_result) :
            i < j => /\ q_result[i].cost <= q_result[j].cost
                     /\ q_result[i].cost = q_result[j].cost
                            => q_result[i].name[2] < q_result[j].name[2]

\* C5 witness: a list of three was returned whose first two entries cost the
\* same and come in the order of their locations, a dearer one found before
\* them having been moved behind.
C5_Witness ==
    /\ q_kind = "find_fuel_from_point" /\ q_pc = "returned"
    /\ Len(q_result) = 3
    /\ q_result[1].cost = q_result[2].cost
    /\ q_result[3].cost > q_result[2].cost
    /\ q_result[3].name[2] = 1

Priced(loc, fuel_type) ==
    fuel_type \in DOMAIN loc.available_fuels /\ loc.available_fuels[fuel_type] > 0

\* C6: the result holds exactly one entry {name, cost, distance} for each
\* location that has the fuel type at a price above zero, and none for a
\* location without the fuel type or with a price of zero or less.
C6_ExactlyThePriced ==
    (q_kind = "find_fuel_from_point" /\ q_pc = "returned") =>
        /\ \A k \in 1..Len(locations) :
              LET loc == locations[k]
                  entries == {i \in 1..Len(q_result) : q_result[i].name = loc.name}
              IN IF Priced(loc, q_fuel_type)
                 THEN /\ Cardinality(entries) = 1
                      /\ \A i \in entries :
                            q_result[i] = [name |-> loc.name,
                                           cost |-> loc.available_fuels[q_fuel_type],
                                           distance |-> loc.distance]
                 ELSE entries = {}
        /\ \A i \in 1..Len(q_result) :
              \E k \in 1..Len(locations) : q_result[i].name = locations[k].name

\* C6 witness: of three locations one has the fuel at a price above zero, one
\* at zero and one not at all, and the result has the single entry.
C6_Witness ==
    /\ q_kind = "find_fuel_from_point" /\ q_pc = "returned"
    /\ Len(locations) = 3 /\ Len(q_result) = 1
    /\ \E k \in 1..3 : q_fuel_type \notin DOMAIN locations[k].available_fuels
    /\ \E k \in 1..3 : /\ q_fuel_type \in DOMAIN locations[k].available_fuels
                       /\ locations[k].available_fuels[q_fuel_type] = 0

\* A source_id was passed that is no key of configured_sources ("" is no
\* source_id for the two find methods: it stands for none given).
UnknownSourcePassed ==
    /\ q_kind # "none"
    /\ q_source_id \notin Configured
    /\ q_kind = "get_fuel_location" \/ q_source_id # NoSource

\* C7: a query method called with a source_id that is not configured has
\* failed with the KeyError of the lookup, and no upstream call was made.
C7_UnknownSourceFailsWithoutIO ==
    UnknownSourcePassed => q_pc = "raised" /\ q_err = "KeyError" /\ io = << >>

\* C7 witness: find_fuel_from_point was called with an unknown source_id.
C7_Witness ==
    /\ UnknownSourcePassed /\ q_kind = "find_fuel_from_point" /\ q_pc = "raised"

IsSearch(call) == call.op = "search_sites"
Searched == LET s == SelectSeq(io, IsSearch) IN [n \in 1..Len(s) |-> s[n].src]

\* C8: without a source_id, a geocoded country that COUNTRY_MAP does not map
\* makes the call fail with the ValueError, and no search_sites is called.
C8_UnmappedCountryFails ==
    (q_kind \in FindKinds /\ q_source_id = NoSource /\ q_geocoded # ""
        /\ Upper(q_geocoded) \notin DOMAIN COUNTRY_MAP)
    => q_pc = "raised" /\ q_err = "ValueError" /\ Searched = << >>

\* C8 witness: the lookup answered "zz" and the call has failed.
C8_Witness == q_kind \in FindKinds /\ q_geocoded = "zz" /\ q_pc = "raised"

IsConfigured(p) == p \in Configured
Applicable == SelectSeq(COUNTRY_MAP[Upper(q_geocoded)], IsConfigured)

RECURSIVE ConcatSearches(_, _)
ConcatSearches(srcs, radius) ==
    IF srcs = << >> THEN << >>
    ELSE SearchSites(Head(srcs), radius) \o ConcatSearches(Tail(srcs), radius)

\* C9: without a source_id, on coordinates of a mapped country, the sources
\* searched are at every moment a prefix of the country's providers that are
\* configured, in the table's order, and the list returned is the concatenation
\* of the search_sites results of all of them, in that order.
C9_ConcatenationOfApplicable ==
    (q_kind = "find_fuel_locations_from_point" /\ q_source_id = NoSource
        /\ q_geocoded # "" /\ Upper(q_geocoded) \in DOMAIN COUNTRY_MAP)
    => /\ Len(Searched) <= Len(Applicable)
       /\ Searched = SubSeq(Applicable, 1, Len(Searched))
       /\ q_pc = "returned" => /\ Searched = Applicable
                               /\ q_result = ConcatSearches(Applicable, q_radius)

\* C9 witness: the list returned holds stations of two providers, in the
\* table's order, while a provider of the country that is not configured and a
\* configured provider of another country were not searched.
C9_Witness ==
    /\ q_kind = "find_fuel_locations_from_point" /\ q_source_id = NoSource
    /\ q_pc = "returned"
    /\ \E i, j \in 1..Len(q_result) : i < j /\ q_result[i].source < q_result[j].source
    /\ Len(Applicable) < Len(COUNTRY_MAP[Upper(q_geocoded)])
    /\ \E p \in Configured : \A n \in 1..Len(Searched) : Searched[n] # p

\* C10 as claimed: an operation on another instance (its creation included)
\* changes neither the sources nor the accessed sites an existing instance holds.
C10_InstancesIndependent ==
    [][\A i \in 1..instances :
          actor' # i => /\ InstanceSources(i)' = InstanceSources(i)
                        /\ InstanceAccessed(i)' = InstanceAccessed(i)]_vars

\* C11 as claimed: a create that fails with the configuration error of an
\* unknown enabled source has added no source: the configured sources are
\* those of before the call.
C11_FailedCreateAddsNothing ==
    [][create_result' = "ValueError" => configured_sources' = configured_sources]_vars

\* C20 as claimed: a get_fuel_location that fails because its source_id is
\* not configured leaves the accessed sites as they were.
C20_FailedLookupRecordsNothing ==
    [][(q_kind' = "get_fuel_location" /\ q_pc' = "raised" /\ q_err' = "KeyError")
          => accessed_sites' = accessed_sites]_vars

\* C16: update ends only after every configured source's refresh has ended,
\* unless a refresh failed with an exception other than a timeout; and when
\* every refresh ends, a call of update always eventually returns, or a
\* refresh has failed with an exception other than a timeout.
C16_ReturnsAfterAllAndEventually ==
    /\ []((upd_pc \in {"returned", "raised"}
              /\ \A s \in Configured : outcome[s] # "ClientError")
            => (upd_pc = "returned" /\ \A s \in Configured : task[s] = "done"))
    /\ (upd_pc = "gather") ~>
          (upd_pc = "returned" \/ \E s \in Configured : outcome[s] = "ClientError")

\* C16 witness: update returned after three or more refreshes, all timed out.
C16_Witness ==
    /\ upd_pc = "returned"
    /\ Cardinality(Configured) >= 3
    /\ \A s \in Configured : task[s] = "done" /\ outcome[s] = "TimeoutError"

\* a get_site request for the location is in the call's list of requests
Fetched(loc) == \E n \in DOMAIN io : io[n] = IO("get_site", SourceKey(loc), loc.id)

\* C17 as claimed: find_fuel_from_point dispatches get_site only for a location
\* whose id is not in accessed_sites yet.
C17_FetchOnlyNotAccessed ==
    [][(q_kind = "find_fuel_from_point" /\ q_pc = "gather"
            /\ Len(io') = Len(io) + 1 /\ io'[Len(io')].op = "get_site")
          => io'[Len(io')].site \notin DOMAIN accessed_sites]_vars

\* C17 amended: when find_fuel_from_point has returned, a get_site was
\* dispatched for every location the search returned, the locations already
\* in accessed_sites included.
C17_FetchEveryLocation ==
    (q_kind = "find_fuel_from_point" /\ q_pc = "returned") =>
        \A k \in 1..Len(locations) : Fetched(locations[k])

\* C17 witness: find_fuel_from_point has returned and fetched a location that
\* an earlier get_fuel_location had recorded (under another provider id).
C17_Witness ==
    /\ q_kind = "find_fuel_from_point" /\ q_pc = "returned"
    /\ \E k \in 1..Len(locations) :
          /\ accessed_sites[locations[k].id] # locations[k].source
          /\ Fetched(locations[k])

\* C18 as claimed: when find_fuel_from_point has returned, every location of
\* its search is in accessed_sites under its owning provider; and an entry of
\* accessed_sites is never removed or changed.
C18_AccessedUnderOwner ==
    /\ []((q_kind = "find_fuel_from_point" /\ q_pc = "returned") =>
            \A k \in 1..Len(locations) :
                /\ locations[k].id \in DOMAIN accessed_sites
                /\ accessed_sites[locations[k].id] = locations[k].source)
    /\ [][\A id \in DOMAIN accessed_sites :
              id \in DOMAIN accessed_sites' /\ accessed_sites'[id] = accessed_sites[id]]_vars

\* an entry with a name and a price text that is a number
WellFormed(fuel) ==
    /\ DOMAIN fuel = {"nom", "prix"}
    /\ fuel.prix.type = "str"
    /\ IsFloat(RemoveCommas(fuel.prix.text))

\* C19 as claimed: parse_fuels never raises, and returns one Fuel per
\* well-formed entry of its input, in the order of the input.
C19_SkipsUnparseable ==
    pf_pc # "idle" =>
        /\ pf_pc = "returned"
        /\ LET good == SelectSeq(pf_fuels, WellFormed) IN
            /\ Len(pf_result) = Len(good)
            /\ \A n \in 1..Len(good) :
                  /\ pf_result[n].fuel_type = good[n].nom
                  /\ pf_result[n].props = good[n]


\* C12 as claimed: when update has returned, every station of the listings it
\* fetched is in location_cache under its site id; and search_sites, on a cache
\* that was empty, returns the stations of the fetched listing that lie within
\* the radius.
C12_FetchedListingIsCached ==
    s_pc = "returned" =>
        /\ \A id \in s_fetched : InCache(location_cache, id)
        /\ s_op = "search_sites" =>
              {s_result[k].id : k \in 1..Len(s_result)}
                  = {id \in s_fetched : SiteDistance(id) < s_radius}

\* C13 as claimed: update sends a request to the upstream for an area only if
\* force is set, or the area was not fetched before, or next_update has been
\* reached.
C13_NoRequestBeforeNextUpdate ==
    [][Len(requests') = Len(requests) + 1
          => \/ s_force
             \/ Head(s_areas) \notin fetched
             \/ now >= next_update]_vars

\* the position of a site in the cache, 0 if it is not cached
Position(cache, site_id) == IF InCache(cache, site_id) THEN CacheIndex(cache, site_id) ELSE 0

\* C14: a parse never removes, moves or replaces a cached object; the cache
\* holds exactly one entry per site id parsed; and parse_raw_fuel_station returns
\* the cached object of its site, which is the one that was cached before if
\* the site was cached.
C14_OneEntryPerSite ==
    [][/\ \A n \in 1..Len(location_cache) :
              /\ n <= Len(location_cache')
              /\ location_cache'[n].id = location_cache[n].id
              /\ location_cache'[n].obj = location_cache[n].obj
       /\ \A i, j \in 1..Len(location_cache') :
              location_cache'[i].id = location_cache'[j].id => i = j
       /\ {location_cache'[n].id : n \in 1..Len(location_cache')} = parsed'
       /\ Len(location_cache') = Cardinality(parsed')
       /\ (parse_op' = "parse_raw_fuel_station" /\ objects' = objects + 1) =>
              LET ret == parse_ret'[1] IN
              /\ InCache(location_cache', ret.id)
              /\ ret = location_cache'[CacheIndex(location_cache', ret.id)]
              /\ InCache(location_cache, ret.id) =>
                    ret.obj = location_cache[CacheIndex(location_cache, ret.id)].obj]_vars

\* C14 witness: one site was parsed twice: the cache holds the first object,
\* with the fuels of both parses, and the second parse returned it.
C14_Witness ==
    /\ parse_op = "parse_raw_fuel_station" /\ parse_err = "none"
    /\ objects = 2 /\ Len(location_cache) = 1
    /\ location_cache[1].obj = 1
    /\ DOMAIN location_cache[1].available_fuels = FuelTypes
    /\ parse_ret = <<location_cache[1]>>

\* C15: the list search_sites returns holds a cached site exactly if its
\* distance is less than the radius, in the order of the cache, each with its
\* distance.
C15_StrictlyWithinRadius ==
    [][(s_op = "search_sites" /\ s_pc # "returned" /\ s_pc' = "returned") =>
          /\ \A n \in 1..Len(location_cache') :
                (\E k \in 1..Len(s_result') : s_result'[k].id = location_cache'[n].id)
                    <=> SiteDistance(location_cache'[n].id) < s_radius'
          /\ \A k \in 1..Len(s_result') :
                /\ InCache(location_cache', s_result'[k].id)
                /\ s_result'[k].distance = SiteDistance(s_result'[k].id)
          /\ \A j, k \in 1..Len(s_result') :
                j < k => Position(location_cache', s_result'[j].id)
                            < Position(location_cache', s_result'[k].id)]_vars

\* C15 witness: search_sites has returned a site, leaving out a site that was
\* cached before it and lies exactly at the radius.
C15_Witness ==
    /\ s_op = "search_sites" /\ s_pc = "returned"
    /\ \E k \in 1..Len(s_result), n \in 1..Len(location_cache) :
          /\ SiteDistance(location_cache[n].id) = s_radius
          /\ n < Position(location_cache, s_result[k].id)
          /\ \A j \in 1..Len(s_result) : s_result[j].id # location_cache[n].id

====
